---- MODULE Spec2Model ----
(***************************************************************************)
(* Model of internal/simd/helpers_amd64.h: the three Plan 9 assembler      *)
(* macros slice_addr, slice_len and slice_size, executed on a machine with *)
(* four 64-bit general purpose registers and an argument frame of          *)
(* quadwords addressed relative to the pseudo register FP.                 *)
(*                                                                         *)
(* A 64-bit quadword is a sequence of 8 bytes, least significant first, so *)
(* that the unsigned 64x64 -> 128 bit multiply of MULQ is computed at its  *)
(* real width.  The status flags are not modelled.                         *)
(***************************************************************************)
EXTENDS Integers, Sequences, FiniteSets, TLC

VARIABLES regs, mem, loads, ea, pre, lastOp, steps, init

vars == <<regs, mem, loads, ea, pre, lastOp, steps, init>>

----------------------------------------------------------------------------
(* Bounds *)

MaxSteps == 2

----------------------------------------------------------------------------
(* Quadwords *)

QuadBytes == 8

ByteBase == 256

\* the quadword holding the small natural number n (n < 2^31)
W(n) == [i \in 1..QuadBytes |->
           IF i = 1 THEN n % ByteBase
           ELSE IF i = 2 THEN (n \div ByteBase) % ByteBase
           ELSE IF i = 3 THEN (n \div (ByteBase * ByteBase)) % ByteBase
           ELSE IF i = 4 THEN n \div (ByteBase * ByteBase * ByteBase)
           ELSE 0]

Zero == W(0)

Pow32 == <<0, 0, 0, 0, 1, 0, 0, 0>>          \* 2^32

Pow62 == <<0, 0, 0, 0, 0, 0, 0, 64>>         \* 2^62

MaxInt == <<255, 255, 255, 255, 255, 255, 255, 127>>   \* 2^63 - 1

MaxIntLess1 == <<254, 255, 255, 255, 255, 255, 255, 127>>   \* 2^63 - 2

\* one term of column k of the schoolbook product
MulTerm(a, b, k, i) ==
    IF k - i >= 0 /\ k - i < QuadBytes THEN a[i + 1] * b[k - i + 1] ELSE 0

MulCol(a, b, k) ==
    MulTerm(a, b, k, 0) + MulTerm(a, b, k, 1) + MulTerm(a, b, k, 2)
  + MulTerm(a, b, k, 3) + MulTerm(a, b, k, 4) + MulTerm(a, b, k, 5)
  + MulTerm(a, b, k, 6) + MulTerm(a, b, k, 7)

RECURSIVE MulAcc(_, _, _, _, _)
MulAcc(a, b, k, carry, acc) ==
    IF k = 2 * QuadBytes THEN acc
    ELSE LET s == MulCol(a, b, k) + carry
         IN  MulAcc(a, b, k + 1, s \div ByteBase, Append(acc, s % ByteBase))

\* the full 128-bit unsigned product, 16 bytes, least significant first
Mul128(a, b) == MulAcc(a, b, 0, 0, <<>>)

Lo64(p) == SubSeq(p, 1, QuadBytes)

Hi64(p) == SubSeq(p, QuadBytes + 1, 2 * QuadBytes)

\* (a * b) mod 2^64
MulLo(a, b) == Lo64(Mul128(a, b))

\* (a * b) div 2^64
MulHi(a, b) == Hi64(Mul128(a, b))

----------------------------------------------------------------------------
(* Machine *)

Regs == {"AX", "BX", "CX", "DX"}

Names == {"buf"}

\* slice header A at 0(FP), slice header B at 4096(FP): addr, len, cap
FrameAddrs == {0, 8, 16, 4096, 4104, 4112}

AddrA == <<0, 64, 1, 0, 192, 0, 0, 0>>       \* 0xc000014000

AddrB == <<0, 128, 2, 0, 192, 0, 0, 0>>      \* 0xc000028000

Lens == {W(0), W(1), W(5), Pow32}

Frame(L) == [a \in FrameAddrs |->
               IF a = 0 THEN AddrA
               ELSE IF a = 8 THEN L
               ELSE IF a = 16 THEN Pow62
               ELSE IF a = 4096 THEN AddrB
               ELSE IF a = 4104 THEN MaxIntLess1
               ELSE MaxInt]

\* operands
Imm(v) == [kind |-> "imm", val |-> v, reg |-> "", addr |-> 0]

Reg(r) == [kind |-> "reg", val |-> Zero, reg |-> r, addr |-> 0]

Mem(a) == [kind |-> "mem", val |-> Zero, reg |-> "", addr |-> a]

NoOperand == [kind |-> "none", val |-> Zero, reg |-> "", addr |-> 0]

\* NAME+DISP(FP): the symbol names the slot, the displacement locates it
FP(NAME, DISP) == Mem(DISP)

Imms == {W(1), W(4), W(8), Pow32}

ElemSizes == {Imm(v) : v \in Imms} \cup {Reg(r) : r \in Regs}

AddrOffsets == {0, 8, 4096, 4104}

LenOffsets == {0, 8, 4096, 4104}

SizeOffsets == {0}

\* MOVQ src, dst
MOVQ(S, src, dst) ==
    LET v == IF src.kind = "imm" THEN src.val
             ELSE IF src.kind = "reg" THEN S.regs[src.reg]
             ELSE S.mem[src.addr]
        S1 == IF src.kind = "mem"
              THEN [S EXCEPT !.loads = @ + 1, !.ea = src.addr]
              ELSE S
    IN  IF dst.kind = "reg"
        THEN [S1 EXCEPT !.regs[dst.reg] = v]
        ELSE [S1 EXCEPT !.mem[dst.addr] = v]

\* MULQ with the halves of the product exchanged
MULQ_halves(S, r) ==
    LET p == Mul128(S.regs["AX"], S.regs[r.reg])
    IN  [S EXCEPT !.regs = [x \in Regs |->
                              IF x = "AX" THEN Hi64(p)
                              ELSE IF x = "DX" THEN Lo64(p)
                              ELSE S.regs[x]]]

\* MULQ r: DX:AX = AX * r (unsigned)
MULQ(S, r) ==
    LET p == Mul128(S.regs["AX"], S.regs[r.reg])
    IN  [S EXCEPT !.regs = [x \in Regs |->
                              IF x = "AX" THEN Lo64(p)
                              ELSE IF x = "DX" THEN Hi64(p)
                              ELSE S.regs[x]]]

\* slice_addr with the operands of MOVQ exchanged (a store)
slice_addr_store(S, NAME, OFFSET, REGISTER) ==
    MOVQ(S, Reg(REGISTER), FP(NAME, OFFSET))

\* slice_addr going through the accumulator
slice_addr_scratch(S, NAME, OFFSET, REGISTER) ==
    MOVQ(MOVQ(S, FP(NAME, OFFSET), Reg("AX")), Reg("AX"), Reg(REGISTER))

\* slice_addr dropping OFFSET
slice_addr_nooffset(S, NAME, OFFSET, REGISTER) ==
    MOVQ(S, FP(NAME, 0), Reg(REGISTER))

slice_addr(S, NAME, OFFSET, REGISTER) ==
    MOVQ(S, FP(NAME, OFFSET), Reg(REGISTER))

\* slice_len without the 8 byte step over the address field
slice_len_first(S, NAME, OFFSET, REGISTER) ==
    MOVQ(S, FP(NAME, OFFSET), Reg(REGISTER))

\* slice_len dropping OFFSET
slice_len_nooffset(S, NAME, OFFSET, REGISTER) ==
    MOVQ(S, FP(NAME, 8), Reg(REGISTER))

\* slice_len with the operands of MOVQ exchanged (a store)
slice_len_store(S, NAME, OFFSET, REGISTER) ==
    MOVQ(S, Reg(REGISTER), FP(NAME, 8 + OFFSET))

slice_len(S, NAME, OFFSET, REGISTER) ==
    MOVQ(S, FP(NAME, 8 + OFFSET), Reg(REGISTER))

\* slice_size reading ELEMENT_SIZE before the length is loaded
slice_size_early(S, NAME, OFFSET, ELEMENT_SIZE, REGISTER) ==
    LET S1 == MOVQ(S, ELEMENT_SIZE, Reg(REGISTER))
        S2 == slice_len(S1, NAME, OFFSET, "AX")
        S3 == MULQ(S2, Reg(REGISTER))
    IN  MOVQ(S3, Reg("AX"), Reg(REGISTER))

slice_size(S, NAME, OFFSET, ELEMENT_SIZE, REGISTER) ==
    LET S1 == slice_len(S, NAME, OFFSET, "AX")
        S2 == MOVQ(S1, ELEMENT_SIZE, Reg(REGISTER))
        S3 == MULQ(S2, Reg(REGISTER))
    IN  MOVQ(S3, Reg("AX"), Reg(REGISTER))

----------------------------------------------------------------------------
(* State machine: a routine that expands the macros one after another *)

\* the machine state an expansion starts from
Entry == [regs |-> regs, mem |-> mem, loads |-> 0, ea |-> 0]

Op(m, n, o, e, r) ==
    [macro |-> m, name |-> n, offset |-> o, elem |-> e, reg |-> r]

Commit(S, op) ==
    /\ regs' = S.regs
    /\ mem' = S.mem
    /\ loads' = S.loads
    /\ ea' = S.ea
    /\ pre' = [regs |-> regs, mem |-> mem]
    /\ lastOp' = op
    /\ steps' = steps + 1
    /\ UNCHANGED init

Init ==
    \E L \in Lens :
        /\ regs = [r \in Regs |->
                     IF r = "AX" THEN W(4)
                     ELSE IF r = "BX" THEN W(8)
                     ELSE IF r = "CX" THEN W(6)
                     ELSE W(3)]
        /\ mem = Frame(L)
        /\ loads = 0
        /\ ea = 0
        /\ pre = [regs |-> regs, mem |-> mem]
        /\ lastOp = Op("none", "", 0, NoOperand, "")
        /\ steps = 0
        /\ init = [regs |-> regs, mem |-> mem]

ExpandAddr ==
    \E n \in Names, o \in AddrOffsets, r \in Regs :
        /\ steps < MaxSteps
        /\ Commit(slice_addr(Entry, n, o, r), Op("addr", n, o, NoOperand, r))

ExpandLen ==
    \E n \in Names, o \in LenOffsets, r \in Regs :
        /\ steps < MaxSteps
        /\ Commit(slice_len(Entry, n, o, r), Op("len", n, o, NoOperand, r))

ExpandSize ==
    \E n \in Names, o \in SizeOffsets, e \in ElemSizes, r \in Regs :
        /\ steps < MaxSteps
        /\ Commit(slice_size(Entry, n, o, e, r), Op("size", n, o, e, r))

Next == ExpandAddr \/ ExpandLen \/ ExpandSize

Spec == Init /\ [][Next]_vars

TypeOK ==
    /\ steps \in 0..MaxSteps
    /\ DOMAIN regs = Regs
    /\ DOMAIN mem = FrameAddrs

----------------------------------------------------------------------------
(* Quantities the properties speak about *)

\* the machine state the last expansion started from
PreEntry == [regs |-> pre.regs, mem |-> pre.mem, loads |-> 0, ea |-> 0]

\* the machine state the behaviour started from
InitEntry == [regs |-> init.regs, mem |-> init.mem, loads |-> 0, ea |-> 0]

\* the machine state now
Now == [regs |-> regs, mem |-> mem, loads |-> loads, ea |-> ea]

\* L: the length field of the slice header the last expansion named
LenField == pre.mem[lastOp.offset + 8]

\* E: the element size handed to the last expansion, as the caller set it
ElemValue ==
    IF lastOp.elem.kind = "imm" THEN lastOp.elem.val
    ELSE pre.regs[lastOp.elem.reg]

OthersKept(written) ==
    \A r \in Regs \ written : regs[r] = pre.regs[r]

----------------------------------------------------------------------------
(* Properties *)

\* C1 (as stated): after every expansion of slice_size, whatever the
\* destination register and whatever the form of ELEMENT_SIZE, REGISTER
\* holds (L * E) mod 2^64.
C1_Original ==
    lastOp.macro = "size" => regs[lastOp.reg] = MulLo(LenField, ElemValue)

\* C2: slice_addr performs exactly one load, leaves the quadword at
\* NAME+OFFSET in REGISTER and leaves every other register and the whole
\* frame unchanged.
C2_AddrLoad ==
    lastOp.macro = "addr" =>
        /\ loads = 1
        /\ regs[lastOp.reg] = pre.mem[lastOp.offset]
        /\ OthersKept({lastOp.reg})
        /\ mem = pre.mem

C2_Witness ==
    /\ lastOp.macro = "addr"
    /\ lastOp.offset = 0
    /\ lastOp.reg = "BX"
    /\ pre.regs["BX"] = W(8)
    /\ regs["BX"] = AddrA
    /\ loads = 1

\* C3: slice_len leaves the length field (the quadword at NAME+OFFSET+8)
\* in REGISTER, not the address field before it nor the capacity field
\* after it, and leaves every other register unchanged.
C3_LenLoad ==
    lastOp.macro = "len" =>
        /\ regs[lastOp.reg] = pre.mem[lastOp.offset + 8]
        /\ regs[lastOp.reg] # pre.mem[lastOp.offset]
        /\ (lastOp.offset + 16 \in FrameAddrs
              => regs[lastOp.reg] # pre.mem[lastOp.offset + 16])
        /\ OthersKept({lastOp.reg})

C3_Witness ==
    /\ lastOp.macro = "len"
    /\ lastOp.offset = 0
    /\ lastOp.reg = "CX"
    /\ regs["CX"] = W(5)
    /\ pre.mem[0] = AddrA
    /\ pre.mem[16] = Pow62

\* C4: for slice_addr and slice_len, the expansion with OFFSET = k+8 reads
\* the quadword 8 bytes after the one the expansion with OFFSET = k reads.
C4_OffsetShift ==
    /\ (lastOp.macro = "addr" /\ lastOp.offset + 8 \in AddrOffsets) =>
          LET T == slice_addr(PreEntry, lastOp.name, lastOp.offset + 8,
                              lastOp.reg)
          IN  /\ T.ea = ea + 8
              /\ T.regs[lastOp.reg] = pre.mem[ea + 8]
              /\ regs[lastOp.reg] = pre.mem[ea]
    /\ (lastOp.macro = "len" /\ lastOp.offset + 8 \in LenOffsets) =>
          LET T == slice_len(PreEntry, lastOp.name, lastOp.offset + 8,
                             lastOp.reg)
          IN  /\ T.ea = ea + 8
              /\ T.regs[lastOp.reg] = pre.mem[ea + 8]
              /\ regs[lastOp.reg] = pre.mem[ea]

C4_Witness ==
    /\ lastOp.macro = "addr"
    /\ lastOp.offset = 4096
    /\ ea = 4096
    /\ slice_addr(PreEntry, lastOp.name, 4104, lastOp.reg).ea = 4104
    /\ steps = 2
    /\ pre.regs # init.regs

\* C5: what slice_addr (slice_len) leaves in its destination register after
\* any sequence of earlier expansions is what it leaves there when it is
\* the first expansion of the routine.
C5_NoHiddenState ==
    /\ lastOp.macro = "addr" =>
          regs[lastOp.reg] =
             slice_addr(InitEntry, lastOp.name, lastOp.offset,
                        lastOp.reg).regs[lastOp.reg]
    /\ lastOp.macro = "len" =>
          regs[lastOp.reg] =
             slice_len(InitEntry, lastOp.name, lastOp.offset,
                       lastOp.reg).regs[lastOp.reg]

C5_Witness ==
    /\ lastOp.macro = "addr"
    /\ steps = 2
    /\ lastOp.offset = 8
    /\ pre.regs[lastOp.reg] # init.regs[lastOp.reg]
    /\ pre.regs["DX"] # init.regs["DX"]
    /\ regs[lastOp.reg] = init.mem[8]

\* C6: every quadword of the argument frame holds the value it held when
\* the routine was entered.
C6_FrameReadOnly ==
    \A a \in FrameAddrs : mem[a] = init.mem[a]

C6_Witness ==
    /\ steps = 2
    /\ lastOp.macro = "size"
    /\ regs["AX"] # init.regs["AX"]
    /\ mem = init.mem

\* C7 (as stated): after slice_size AX and REGISTER hold the low 64 bits of
\* L*E, DX holds the high 64 bits unless REGISTER is DX, and every other
\* register keeps its value.
C7_Original ==
    lastOp.macro = "size" =>
        /\ regs["AX"] = MulLo(LenField, ElemValue)
        /\ regs[lastOp.reg] = regs["AX"]
        /\ (lastOp.reg # "DX" => regs["DX"] = MulHi(LenField, ElemValue))
        /\ OthersKept({"AX", "DX", lastOp.reg})

C10_LenIsAddrPlus8 ==
    lastOp.macro = "len" =>
        Now = slice_addr(PreEntry, lastOp.name, lastOp.offset + 8,
                         lastOp.reg)

C10_Witness ==
    /\ lastOp.macro = "len"
    /\ lastOp.offset = 4096
    /\ lastOp.reg = "DX"
    /\ regs["DX"] = MaxIntLess1
    /\ ea = 4104

====
